---- MODULE Spec2Model ----
(***************************************************************************)
(* Model of jsonrpcserver/async_dispatcher.py: the asynchronous dispatch   *)
(* of one JSON-RPC request text (dispatch_pure -> call_requests ->         *)
(* safe_call -> call) inside dispatch, with the handlers of the registry   *)
(* as the environment: a handler may suspend, return, or raise.            *)
(*                                                                         *)
(* A handler is a coroutine function (the dispatcher awaits what it        *)
(* returns).  context is NOCONTEXT and convert_camel_case is false.        *)
(***************************************************************************)
EXTENDS Integers, Sequences, FiniteSets, TLC

\* ------------------------------------------------------------------ bounds
MaxBatch == 2      \* members of a batch

\* ------------------------------------------------------------- data model
MethodNames == {"ping", "add"}

\* the parameter names a handler declares, in order
ParamNames == <<"a", "b", "c">>

\* a request id keeps its JSON type; NOID is the absent id
NOID == [type |-> "absent", val |-> 0]

Ids == {NOID, [type |-> "number", val |-> 1], [type |-> "string", val |-> 1]}

\* marks a JSON object without a "method" member
NoMethod == "<no method>"

\* JSON-RPC params is absent, an array or an object, never both
ParamsChoices ==
    {[args |-> <<>>, kwargs |-> {}],
     [args |-> <<1>>, kwargs |-> {}],
     [args |-> <<>>, kwargs |-> {"a"}]}

\* the JSON objects of the input: one of them lacks "method"
Objects ==
    {[method |-> m, args |-> p.args, kwargs |-> p.kwargs, id |-> i] :
        m \in MethodNames, p \in ParamsChoices, i \in Ids}
        \cup {[method |-> NoMethod, args |-> <<>>, kwargs |-> {}, id |-> NOID]}

\* the members of a batch pass their params by position
BatchObjects == {o \in Objects : o.kwargs = {}}

SeqsUpTo(S, n) == UNION {[1..k -> S] : k \in 0..n}

JsonValues ==
    {[kind |-> "scalar", members |-> <<>>]}
        \cup {[kind |-> "object", members |-> <<o>>] : o \in Objects}
        \cup {[kind |-> "array", members |-> s] : s \in SeqsUpTo(BatchObjects, MaxBatch)}

\* a request text: malformed, or the text of a JSON value
Texts ==
    {[wellformed |-> FALSE, value |-> [kind |-> "scalar", members |-> <<>>]]}
        \cup {[wellformed |-> TRUE, value |-> v] : v \in JsonValues}

\* the handlers that may be registered: each declares its parameters,
\* ping() and add(a)
HandlerPool == [m \in MethodNames |-> [params |-> IF m = "ping" THEN 0 ELSE 1]]

\* the registry holds any of them
Registries == {[m \in D |-> HandlerPool[m]] : D \in SUBSET MethodNames}

\* ------------------------------------------------------------- exceptions
NoExc == [type |-> "none", msg |-> ""]

\* the classes of an exception type, most derived first
Mro(t) ==
    CASE t = "KeyError" -> {"KeyError", "LookupError", "Exception", "BaseException"}
      [] t = "TypeError" -> {"TypeError", "Exception", "BaseException"}
      [] t = "ValueError" -> {"ValueError", "Exception", "BaseException"}
      [] t = "JSONDecodeError" -> {"JSONDecodeError", "ValueError", "Exception", "BaseException"}
      [] t = "ValidationError" -> {"ValidationError", "Exception", "BaseException"}
      [] t = "SystemExit" -> {"SystemExit", "BaseException"}
      [] OTHER -> {}

\* what an except clause tests
IsInstance(exc, cls) == cls \in Mro(exc.type)

\* what a handler body may raise
HandlerExceptions ==
    {[type |-> t, msg |-> "raised by handler"] :
        t \in {"KeyError", "TypeError", "ValueError", "SystemExit"}}

\* -------------------------------------------------------------- responses
NoResponse == [kind |-> "None"]

NotificationResponse == [kind |-> "Notification"]

SuccessResponse(result, id) == [kind |-> "Success", result |-> result, id |-> id]

\* an error Response: name is its class, data and debug are kept as given
ErrorResponse(name, code, message, id, data, dbg) ==
    [kind |-> "Error", name |-> name, code |-> code, message |-> message,
     id |-> id, data |-> data, debug |-> dbg]

MethodNotFoundResponse(id, data, dbg) ==
    ErrorResponse("MethodNotFoundResponse", -32601, "Method not found", id, data, dbg)

InvalidParamsResponse(id, data, dbg) ==
    ErrorResponse("InvalidParamsResponse", -32602, "Invalid parameters", id, data, dbg)

ExceptionResponse(exc, id, dbg) ==
    ErrorResponse("ExceptionResponse", -32603, "Server error", id, exc.msg, dbg)

\* the data member of an error Response on the wire: present only when the
\* Response was built with debug on
ErrorData(r) == IF r.debug THEN <<r.data>> ELSE <<>>

\* the id of an error that belongs to no request is JSON null
NullId == [type |-> "null", val |-> 0]

InvalidJSONResponse(data, dbg) ==
    ErrorResponse("InvalidJSONResponse", -32700, "Invalid JSON", NullId, data, dbg)

InvalidJSONRPCResponse(data, dbg) ==
    ErrorResponse("InvalidJSONRPCResponse", -32600, "Invalid JSON-RPC", NullId, data, dbg)

BatchResponse(responses) == [kind |-> "Batch", responses |-> responses]

\* the wire form of a Batch: its entries in order, without the
\* Notification entries
WirePayload(batch) ==
    SelectSeq(batch.responses, LAMBDA r : r # NotificationResponse)

\* ------------------------------------------------------------------ state
VARIABLES
    request,    \* the request text given to dispatch_pure
    methods,    \* the registry: method name -> handler
    debug,      \* the debug option
    pc,         \* where dispatch_pure is: start, single, gather, returned, raised
    requests,   \* the Request objects built by create_requests, in input order
    tasks,      \* one safe_call invocation per Request
    order,      \* the indices of the finished invocations, in completion order
    response,   \* the Response dispatch_pure returned
    escaped,    \* the exception that left dispatch_pure
    basic_logging,  \* the basic_logging option of dispatch
    handlers,   \* the stream handlers attached to the loggers
    log         \* what log_request and log_response were called for

vars ==
    <<request, methods, debug, pc, requests, tasks, order, response, escaped,
      basic_logging, handlers, log>>

\* ------------------------------------------------------- parse and validate
\* json.loads: the value of a well-formed text, JSONDecodeError otherwise
deserialize(text) ==
    IF text.wellformed
    THEN [exc |-> NoExc, value |-> text.value]
    ELSE [exc |-> [type |-> "JSONDecodeError", msg |-> "Expecting value"],
          value |-> text.value]

\* the request schema: an object with a method, or a non-empty array of them
SchemaValid(value) ==
    /\ value.kind \in {"object", "array"}
    /\ Len(value.members) >= 1
    /\ \A i \in 1..Len(value.members) : value.members[i].method # NoMethod

validate(value) ==
    IF SchemaValid(value)
    THEN [exc |-> NoExc, value |-> value]
    ELSE [exc |-> [type |-> "ValidationError", msg |-> "not valid under the schema"],
          value |-> value]

\* Request(**obj): is_notification is derived from the absence of the id
Request(obj) ==
    [method |-> obj.method, args |-> obj.args, kwargs |-> obj.kwargs,
     id |-> obj.id, is_notification |-> (obj.id = NOID)]

\* one Request for an object, the Requests in input order for an array
create_requests(value) ==
    [iterable |-> (value.kind = "array"),
     items |-> [i \in 1..Len(value.members) |-> Request(value.members[i])]]

NoRequests == [iterable |-> FALSE, items |-> <<>>]

\* a call_requests that takes a sequence of one Request for that Request
IsIterable_MoreThanOne(reqs) == reqs.iterable /\ Len(reqs.items) > 1

\* isinstance(requests, collections.Iterable) in call_requests
IsIterable(reqs) == reqs.iterable

\* ------------------------------------------------------------- invocation
\* inspect.signature(func).bind(*args, **kwargs) of validate_args
Binds(handler, args, kwargs) ==
    LET declared == {ParamNames[i] : i \in 1..handler.params}
        positional == {ParamNames[i] : i \in 1..Len(args)}
    IN  /\ Len(args) <= handler.params
        /\ kwargs \subseteq declared
        /\ kwargs \cap positional = {}
        /\ positional \cup kwargs = declared

validate_args(handler, args, kwargs) ==
    IF Binds(handler, args, kwargs)
    THEN NoExc
    ELSE [type |-> "TypeError", msg |-> "arguments do not match the signature"]

\* what a handler returns: it names the handler and the arguments it got
HandlerResult(req) == [by |-> req.method, args |-> req.args, kwargs |-> req.kwargs]

NoResult == [by |-> "", args |-> <<>>, kwargs |-> {}]

\* safe_call without its "except Exception" clause
SafeCallExit_NoExceptException(req, exc, result, dbg) ==
    LET pending ==
            IF exc = NoExc THEN [kind |-> "fallthrough"]
            ELSE IF IsInstance(exc, "KeyError")
            THEN [kind |-> "return",
                  value |-> MethodNotFoundResponse(req.id, req.method, dbg)]
            ELSE IF IsInstance(exc, "TypeError")
            THEN [kind |-> "return",
                  value |-> InvalidParamsResponse(req.id, exc.msg, dbg)]
            ELSE [kind |-> "raise", exc |-> exc]
    IN  IF req.is_notification
        THEN [kind |-> "return", value |-> NotificationResponse]
        ELSE IF pending.kind = "fallthrough"
        THEN [kind |-> "return", value |-> SuccessResponse(result, req.id)]
        ELSE pending

\* safe_call whose notification override is an else clause of the try
\* statement instead of a finally clause: it replaces the normal return only
SafeCallExit_OverrideOnSuccessOnly(req, exc, result, dbg) ==
    IF exc = NoExc
    THEN IF req.is_notification
         THEN [kind |-> "return", value |-> NotificationResponse]
         ELSE [kind |-> "return", value |-> SuccessResponse(result, req.id)]
    ELSE IF IsInstance(exc, "KeyError")
    THEN [kind |-> "return", value |-> MethodNotFoundResponse(req.id, req.method, dbg)]
    ELSE IF IsInstance(exc, "TypeError")
    THEN [kind |-> "return", value |-> InvalidParamsResponse(req.id, exc.msg, dbg)]
    ELSE IF IsInstance(exc, "Exception")
    THEN [kind |-> "return", value |-> ExceptionResponse(exc, req.id, dbg)]
    ELSE [kind |-> "raise", exc |-> exc]

\* safe_call that answers with the request instead of the handler's result
SafeCallExit_ResultLost(req, exc, result, dbg) ==
    LET pending ==
            IF exc = NoExc THEN [kind |-> "fallthrough"]
            ELSE IF IsInstance(exc, "KeyError")
            THEN [kind |-> "return",
                  value |-> MethodNotFoundResponse(req.id, req.method, dbg)]
            ELSE IF IsInstance(exc, "TypeError")
            THEN [kind |-> "return",
                  value |-> InvalidParamsResponse(req.id, exc.msg, dbg)]
            ELSE IF IsInstance(exc, "Exception")
            THEN [kind |-> "return", value |-> ExceptionResponse(exc, req.id, dbg)]
            ELSE [kind |-> "raise", exc |-> exc]
    IN  IF req.is_notification
        THEN [kind |-> "return", value |-> NotificationResponse]
        ELSE IF pending.kind = "fallthrough"
        THEN [kind |-> "return", value |-> SuccessResponse(NoResult, req.id)]
        ELSE pending

\* safe_call without its "except KeyError" clause
SafeCallExit_NoExceptKeyError(req, exc, result, dbg) ==
    LET pending ==
            IF exc = NoExc THEN [kind |-> "fallthrough"]
            ELSE IF IsInstance(exc, "TypeError")
            THEN [kind |-> "return",
                  value |-> InvalidParamsResponse(req.id, exc.msg, dbg)]
            ELSE IF IsInstance(exc, "Exception")
            THEN [kind |-> "return", value |-> ExceptionResponse(exc, req.id, dbg)]
            ELSE [kind |-> "raise", exc |-> exc]
    IN  IF req.is_notification
        THEN [kind |-> "return", value |-> NotificationResponse]
        ELSE IF pending.kind = "fallthrough"
        THEN [kind |-> "return", value |-> SuccessResponse(result, req.id)]
        ELSE pending

\* safe_call without its "except TypeError" clause
SafeCallExit_NoExceptTypeError(req, exc, result, dbg) ==
    LET pending ==
            IF exc = NoExc THEN [kind |-> "fallthrough"]
            ELSE IF IsInstance(exc, "KeyError")
            THEN [kind |-> "return",
                  value |-> MethodNotFoundResponse(req.id, req.method, dbg)]
            ELSE IF IsInstance(exc, "Exception")
            THEN [kind |-> "return", value |-> ExceptionResponse(exc, req.id, dbg)]
            ELSE [kind |-> "raise", exc |-> exc]
    IN  IF req.is_notification
        THEN [kind |-> "return", value |-> NotificationResponse]
        ELSE IF pending.kind = "fallthrough"
        THEN [kind |-> "return", value |-> SuccessResponse(result, req.id)]
        ELSE pending

\* safe_call that answers with str(request.id)
SafeCallExit_IdAsString(req, exc, result, dbg) ==
    LET sid == [type |-> "string", val |-> req.id.val]
        pending ==
            IF exc = NoExc THEN [kind |-> "fallthrough"]
            ELSE IF IsInstance(exc, "KeyError")
            THEN [kind |-> "return",
                  value |-> MethodNotFoundResponse(sid, req.method, dbg)]
            ELSE IF IsInstance(exc, "TypeError")
            THEN [kind |-> "return",
                  value |-> InvalidParamsResponse(sid, exc.msg, dbg)]
            ELSE IF IsInstance(exc, "Exception")
            THEN [kind |-> "return", value |-> ExceptionResponse(exc, sid, dbg)]
            ELSE [kind |-> "raise", exc |-> exc]
    IN  IF req.is_notification
        THEN [kind |-> "return", value |-> NotificationResponse]
        ELSE IF pending.kind = "fallthrough"
        THEN [kind |-> "return", value |-> SuccessResponse(result, sid)]
        ELSE pending

\* the except clauses and the finally clause of safe_call, given the
\* exception (or none) that the try body ended with
\* safe_call that builds its server error with debug on, whatever the
\* option of the call
SafeCallExit_DebugAlwaysOn(req, exc, result, dbg) ==
    LET pending ==
            IF exc = NoExc THEN [kind |-> "fallthrough"]
            ELSE IF IsInstance(exc, "KeyError")
            THEN [kind |-> "return",
                  value |-> MethodNotFoundResponse(req.id, req.method, dbg)]
            ELSE IF IsInstance(exc, "TypeError")
            THEN [kind |-> "return",
                  value |-> InvalidParamsResponse(req.id, exc.msg, dbg)]
            ELSE IF IsInstance(exc, "Exception")
            THEN [kind |-> "return", value |-> ExceptionResponse(exc, req.id, TRUE)]
            ELSE [kind |-> "raise", exc |-> exc]
    IN  IF req.is_notification
        THEN [kind |-> "return", value |-> NotificationResponse]
        ELSE IF pending.kind = "fallthrough"
        THEN [kind |-> "return", value |-> SuccessResponse(result, req.id)]
        ELSE pending

\* safe_call without the finally clause: a notification is answered like
\* any other request
SafeCallExit_NoFinally(req, exc, result, dbg) ==
    IF exc = NoExc
    THEN [kind |-> "return", value |-> SuccessResponse(result, req.id)]
    ELSE IF IsInstance(exc, "KeyError")
    THEN [kind |-> "return", value |-> MethodNotFoundResponse(req.id, req.method, dbg)]
    ELSE IF IsInstance(exc, "TypeError")
    THEN [kind |-> "return", value |-> InvalidParamsResponse(req.id, exc.msg, dbg)]
    ELSE IF IsInstance(exc, "Exception")
    THEN [kind |-> "return", value |-> ExceptionResponse(exc, req.id, dbg)]
    ELSE [kind |-> "raise", exc |-> exc]

SafeCallExit(req, exc, result, dbg) ==
    LET pending ==
            IF exc = NoExc THEN [kind |-> "fallthrough"]
            ELSE IF IsInstance(exc, "KeyError")
            THEN [kind |-> "return",
                  value |-> MethodNotFoundResponse(req.id, req.method, dbg)]
            ELSE IF IsInstance(exc, "TypeError")
            THEN [kind |-> "return",
                  value |-> InvalidParamsResponse(req.id, exc.msg, dbg)]
            ELSE IF IsInstance(exc, "Exception")
            THEN [kind |-> "return", value |-> ExceptionResponse(exc, req.id, dbg)]
            ELSE [kind |-> "raise", exc |-> exc]
    IN  IF req.is_notification
        THEN [kind |-> "return", value |-> NotificationResponse]
        ELSE IF pending.kind = "fallthrough"
        THEN [kind |-> "return", value |-> SuccessResponse(result, req.id)]
        ELSE pending

\* one invocation of safe_call.  state: created, suspended, done (returned
\* response) or raised (exc left safe_call).  The other fields record what
\* happened: awaited tells whether the handler has suspended, bound and
\* invoked count the bindings attempted and the executions of the handler
\* body, step is the step the try body ended in (resolve, bind, execute),
\* thrown the exception it ended with and result the value it produced
NewTask ==
    [state |-> "created", awaited |-> FALSE, bound |-> 0, invoked |-> 0,
     step |-> "", thrown |-> NoExc, result |-> NoResult,
     response |-> NoResponse, exc |-> NoExc]

\* the try body of safe_call ended in step with exception exc (or none) and
\* value result: the except and finally clauses decide how safe_call ends
EndTry(t, req, step, exc, result, dbg) ==
    LET exit == SafeCallExit(req, exc, result, dbg)
        u == [t EXCEPT !.step = step, !.thrown = exc, !.result = result]
    IN  IF exit.kind = "return"
        THEN [u EXCEPT !.state = "done", !.response = exit.value]
        ELSE [u EXCEPT !.state = "raised", !.exc = exit.exc]

\* the handler body runs until it suspends (any number of times), returns
\* or raises
HandlerSteps(req, t, dbg) ==
    {[t EXCEPT !.state = "suspended", !.awaited = TRUE]}
        \cup {EndTry(t, req, "execute", NoExc, HandlerResult(req), dbg)}
        \cup {EndTry(t, req, "execute", e, NoResult, dbg) : e \in HandlerExceptions}

\* a call() that runs the handler first and checks the arguments afterwards
SafeCallStart_CallThenValidate(req, reg, dbg) ==
    IF req.method \notin DOMAIN reg
    THEN {EndTry(NewTask, req, "resolve",
                 [type |-> "KeyError", msg |-> req.method], NoResult, dbg)}
    ELSE LET bexc == validate_args(reg[req.method], req.args, req.kwargs)
             t == [NewTask EXCEPT !.bound = 1, !.invoked = 1]
         IN  IF bexc # NoExc
             THEN {EndTry(t, req, "bind", bexc, NoResult, dbg)}
             ELSE HandlerSteps(req, t, dbg)

\* a safe_call that does not run the handler of a notification
SafeCallStart_NotificationNotExecuted(req, reg, dbg) ==
    IF req.method \notin DOMAIN reg
    THEN {EndTry(NewTask, req, "resolve",
                 [type |-> "KeyError", msg |-> req.method], NoResult, dbg)}
    ELSE LET bexc == validate_args(reg[req.method], req.args, req.kwargs)
             t == [NewTask EXCEPT !.bound = 1]
         IN  IF bexc # NoExc
             THEN {EndTry(t, req, "bind", bexc, NoResult, dbg)}
             ELSE IF req.is_notification
             THEN {EndTry(t, req, "execute", NoExc, NoResult, dbg)}
             ELSE HandlerSteps(req, [t EXCEPT !.invoked = 1], dbg)

\* safe_call from its start to the first suspension of the handler:
\* methods.items[request.method], then call(): validate_args, then the handler
SafeCallStart(req, reg, dbg) ==
    IF req.method \notin DOMAIN reg
    THEN {EndTry(NewTask, req, "resolve",
                 [type |-> "KeyError", msg |-> req.method], NoResult, dbg)}
    ELSE LET bexc == validate_args(reg[req.method], req.args, req.kwargs)
             t == [NewTask EXCEPT !.bound = 1]
         IN  IF bexc # NoExc
             THEN {EndTry(t, req, "bind", bexc, NoResult, dbg)}
             ELSE HandlerSteps(req, [t EXCEPT !.invoked = 1], dbg)

Finished(t) == t.state \in {"done", "raised"}

\* a gather that collects the results as the awaitables finish
Gather_CompletionOrder(ts) ==
    [i \in 1..Len(ts) |-> IF i <= Len(order) THEN ts[order[i]].response
                          ELSE ts[i].response]

\* asyncio.gather: the results in the order of the awaitables given
Gather(ts) == [i \in 1..Len(ts) |-> ts[i].response]

\* ---------------------------------------------------------------- actions
\* the state when dispatch is called
Called ==
    /\ request \in Texts
    /\ methods \in Registries
    /\ debug \in BOOLEAN
    /\ pc = "start"
    /\ requests = NoRequests
    /\ tasks = <<>>
    /\ order = <<>>
    /\ response = NoResponse
    /\ escaped = NoExc
    /\ handlers = {}
    /\ log = <<>>

\* dispatch called with basic_logging left at its default
Init == Called /\ basic_logging = FALSE

\* dispatch called with basic_logging=True
InitLogging == Called /\ basic_logging = TRUE

\* a dispatch_pure without its "except JSONDecodeError" clause
Deserialized_NoExceptJSONDecodeError(text, dbg) ==
    LET d == deserialize(text)
        v == validate(d.value)
    IN  IF d.exc # NoExc
        THEN [kind |-> "raise", exc |-> d.exc]
        ELSE IF v.exc # NoExc
        THEN IF IsInstance(v.exc, "ValidationError")
             THEN [kind |-> "return", value |-> InvalidJSONRPCResponse("None", dbg)]
             ELSE [kind |-> "raise", exc |-> v.exc]
        ELSE [kind |-> "value", value |-> v.value]

\* a dispatch_pure that validates the shape of what it deserialized (an
\* object or an array) and not the members
Deserialized_MembersNotValidated(text, dbg) ==
    LET d == deserialize(text)
    IN  IF d.exc # NoExc
        THEN IF IsInstance(d.exc, "JSONDecodeError")
             THEN [kind |-> "return", value |-> InvalidJSONResponse(d.exc.msg, dbg)]
             ELSE [kind |-> "raise", exc |-> d.exc]
        ELSE IF d.value.kind = "scalar"
        THEN [kind |-> "return", value |-> InvalidJSONRPCResponse("None", dbg)]
        ELSE [kind |-> "value", value |-> d.value]

\* the try statement of dispatch_pure: the deserialized, validated value,
\* or the Response of the except clause that caught the failure
Deserialized(text, dbg) ==
    LET d == deserialize(text)
        v == validate(d.value)
    IN  IF d.exc # NoExc
        THEN IF IsInstance(d.exc, "JSONDecodeError")
             THEN [kind |-> "return", value |-> InvalidJSONResponse(d.exc.msg, dbg)]
             ELSE [kind |-> "raise", exc |-> d.exc]
        ELSE IF v.exc # NoExc
        THEN IF IsInstance(v.exc, "JSONDecodeError")
             THEN [kind |-> "return", value |-> InvalidJSONResponse(v.exc.msg, dbg)]
             ELSE IF IsInstance(v.exc, "ValidationError")
             THEN [kind |-> "return", value |-> InvalidJSONRPCResponse("None", dbg)]
             ELSE [kind |-> "raise", exc |-> v.exc]
        ELSE [kind |-> "value", value |-> v.value]

\* dispatch_pure up to its first suspension: parse, validate, build the
\* Requests and enter call_requests; a single Request is awaited in place,
\* the members of a batch become the awaitables of gather
DispatchPure ==
    /\ pc = "start"
    /\ LET d == Deserialized(request, debug)
           reqs == create_requests(d.value)
       IN  IF d.kind = "return"
           THEN /\ response' = d.value
                /\ pc' = "returned"
                /\ UNCHANGED <<requests, tasks, order, escaped>>
           ELSE IF d.kind = "raise"
           THEN /\ escaped' = d.exc
                /\ pc' = "raised"
                /\ UNCHANGED <<requests, tasks, order, response>>
           ELSE IF IsIterable(reqs)
           THEN /\ requests' = reqs
                /\ tasks' = [i \in 1..Len(reqs.items) |-> NewTask]
                /\ pc' = "gather"
                /\ UNCHANGED <<order, response, escaped>>
           ELSE \E t \in SafeCallStart(reqs.items[1], methods, debug) :
                /\ requests' = reqs
                /\ tasks' = <<t>>
                /\ order' = IF Finished(t) THEN <<1>> ELSE <<>>
                /\ pc' = CASE t.state = "done" -> "returned"
                            [] t.state = "raised" -> "raised"
                            [] OTHER -> "single"
                /\ response' = t.response
                /\ escaped' = t.exc
    /\ UNCHANGED <<request, methods, debug>>

\* the handler of a single Request resumes; when it ends, safe_call,
\* call_requests and dispatch_pure return (or raise) in turn
ResumeSingle ==
    /\ pc = "single"
    /\ tasks[1].state = "suspended"
    /\ \E t \in HandlerSteps(requests.items[1], tasks[1], debug) :
        /\ tasks' = <<t>>
        /\ order' = IF Finished(t) THEN <<1>> ELSE <<>>
        /\ pc' = CASE t.state = "done" -> "returned"
                    [] t.state = "raised" -> "raised"
                    [] OTHER -> "single"
        /\ response' = t.response
        /\ escaped' = t.exc
    /\ UNCHANGED <<request, methods, debug, requests>>

\* a call_requests whose invocations all read the request from one variable
\* that the loop has left at the last member
StartMember_SharedRequest(i) ==
    /\ pc = "gather"
    /\ tasks[i].state = "created"
    /\ \A j \in 1..(i - 1) : tasks[j].state # "created"
    /\ \E t \in SafeCallStart(requests.items[Len(requests.items)], methods, debug) :
        /\ tasks' = [tasks EXCEPT ![i] = t]
        /\ order' = IF Finished(t) THEN Append(order, i) ELSE order
    /\ UNCHANGED <<request, methods, debug, pc, requests, response, escaped>>

\* a call_requests that awaits the members one after the other: the next
\* member starts when the one before it has finished
StartMember_Sequential(i) ==
    /\ pc = "gather"
    /\ tasks[i].state = "created"
    /\ \A j \in 1..(i - 1) : tasks[j].state \in {"done", "raised"}
    /\ \E t \in SafeCallStart(requests.items[i], methods, debug) :
        /\ tasks' = [tasks EXCEPT ![i] = t]
        /\ order' = IF t.state \in {"done", "raised"} THEN Append(order, i) ELSE order
    /\ UNCHANGED <<request, methods, debug, pc, requests, response, escaped>>

\* the task of member i of a batch runs safe_call to its first suspension;
\* the event loop runs the first steps of the tasks in the order gather
\* created them (call_soon is first in, first out)
StartMember(i) ==
    /\ pc = "gather"
    /\ tasks[i].state = "created"
    /\ \A j \in 1..(i - 1) : tasks[j].state # "created"
    /\ \E t \in SafeCallStart(requests.items[i], methods, debug) :
        /\ tasks' = [tasks EXCEPT ![i] = t]
        /\ order' = IF Finished(t) THEN Append(order, i) ELSE order
    /\ UNCHANGED <<request, methods, debug, pc, requests, response, escaped>>

\* the handler of member i resumes, in any order among the suspended
\* handlers, once every first step queued before it has run
ResumeMember(i) ==
    /\ pc = "gather"
    /\ tasks[i].state = "suspended"
    /\ \A j \in 1..Len(tasks) : tasks[j].state # "created"
    /\ \E t \in HandlerSteps(requests.items[i], tasks[i], debug) :
        /\ tasks' = [tasks EXCEPT ![i] = t]
        /\ order' = IF Finished(t) THEN Append(order, i) ELSE order
    /\ UNCHANGED <<request, methods, debug, pc, requests, response, escaped>>

\* a gather that returns what it has when the first member returns
GatherReturn_FirstCompleted ==
    /\ pc = "gather"
    /\ \E i \in 1..Len(tasks) : tasks[i].state = "done"
    /\ response' = BatchResponse(Gather(tasks))
    /\ pc' = "returned"
    /\ UNCHANGED <<request, methods, debug, requests, tasks, order, escaped>>

\* a gather that wakes call_requests only when the members have finished
\* in the order they were given
GatherReturn_InOrderOnly ==
    /\ pc = "gather"
    /\ \A i \in 1..Len(tasks) : tasks[i].state = "done"
    /\ order = [i \in 1..Len(tasks) |-> i]
    /\ response' = BatchResponse(Gather(tasks))
    /\ pc' = "returned"
    /\ UNCHANGED <<request, methods, debug, requests, tasks, order, escaped>>

\* every member has returned: gather returns and call_requests wraps the
\* results in a BatchResponse
GatherReturn ==
    /\ pc = "gather"
    /\ \A i \in 1..Len(tasks) : tasks[i].state = "done"
    /\ response' = BatchResponse(Gather(tasks))
    /\ pc' = "returned"
    /\ UNCHANGED <<request, methods, debug, requests, tasks, order, escaped>>

\* a member has raised: gather raises the first exception to the awaiting
\* call_requests, which lets it through, as does dispatch_pure.  The call
\* ends at any moment after the member has raised: the event loop re-raises
\* SystemExit and KeyboardInterrupt at once, leaving the queued steps of the
\* other members unrun, and reports any other exception to gather behind them
GatherRaise ==
    /\ pc = "gather"
    /\ \E k \in 1..Len(order) :
        /\ tasks[order[k]].state = "raised"
        /\ \A j \in 1..(k - 1) : tasks[order[j]].state # "raised"
        /\ escaped' = tasks[order[k]].exc
    /\ pc' = "raised"
    /\ UNCHANGED <<request, methods, debug, requests, tasks, order, response>>

\* ------------------------------------------------------------------ dispatch
\* the two stream handlers add_handlers creates for one call
TemporaryHandlers == {"request_handler", "response_handler"}

add_handlers(attached) == attached \cup TemporaryHandlers

remove_handlers(attached) == attached \ TemporaryHandlers

\* the end of dispatch, lines 112-116, run when dispatch_pure has returned:
\* log_response, remove_handlers, return; when dispatch_pure raised, the
\* exception leaves dispatch and these lines do not run
Unwind(attached, logged) ==
    /\ handlers' = IF pc' = "returned" /\ basic_logging
                   THEN remove_handlers(attached)
                   ELSE attached
    /\ log' = IF pc' = "returned" THEN Append(logged, "response") ELSE logged
    /\ UNCHANGED basic_logging

\* dispatch up to its first suspension: add_handlers, log_request, then
\* dispatch_pure, and the end of dispatch when dispatch_pure did not suspend
Dispatch ==
    /\ DispatchPure
    /\ Unwind(IF basic_logging THEN add_handlers(handlers) ELSE handlers,
              Append(log, "request"))

\* the invocation of a single Request ends, and dispatch with it
DispatchResumeSingle == ResumeSingle /\ Unwind(handlers, log)

\* gather returns, and dispatch with it
DispatchGatherReturn == GatherReturn /\ Unwind(handlers, log)

\* gather raises, and the exception leaves dispatch
DispatchGatherRaise == GatherRaise /\ Unwind(handlers, log)

\* the steps of the members of a batch leave dispatch suspended
Start(i) == StartMember(i) /\ UNCHANGED <<basic_logging, handlers, log>>

Resume(i) == ResumeMember(i) /\ UNCHANGED <<basic_logging, handlers, log>>

Next ==
    \/ Dispatch
    \/ DispatchResumeSingle
    \/ \E i \in 1..Len(tasks) : Start(i)
    \/ \E i \in 1..Len(tasks) : Resume(i)
    \/ DispatchGatherReturn
    \/ DispatchGatherRaise

Spec == Init /\ [][Next]_vars

SpecLogging == InitLogging /\ [][Next]_vars

\* a suspended handler runs to its end: it returns or raises
HandlerCompletes ==
    \/ DispatchResumeSingle /\ pc' # "single"
    \/ \E i \in 1..Len(tasks) : Resume(i) /\ Finished(tasks'[i])

\* the event loop runs every step that is ready, and every handler that was
\* invoked comes to its end
Fairness ==
    /\ WF_vars(Dispatch)
    /\ WF_vars(\E i \in 1..Len(tasks) : Start(i))
    /\ WF_vars(HandlerCompletes)
    /\ WF_vars(DispatchGatherReturn)
    /\ WF_vars(DispatchGatherRaise)

FairSpec == Init /\ [][Next]_vars /\ Fairness

\* ----------------------------------------------------------------- claims
Members == 1..Len(tasks)

Req(i) == requests.items[i]

IsError(r, name, code) == r.kind = "Error" /\ r.name = name /\ r.code = code

\* the handler of member i was executed and raised
HandlerRaised(i) == tasks[i].step = "execute" /\ tasks[i].thrown # NoExc

\* the handler of member i was executed and returned
HandlerReturned(i) ==
    /\ Finished(tasks[i])
    /\ tasks[i].step = "execute"
    /\ tasks[i].thrown = NoExc

\* C1 (as stated): whatever the handler does, raising any exception included,
\* safe_call on a non-notification Request ends by returning a Success or an
\* Error, never by letting the exception escape.
C1_AnyExceptionAnswered ==
    \A i \in Members :
        (~Req(i).is_notification /\ Finished(tasks[i]))
            => /\ tasks[i].state = "done"
               /\ tasks[i].response.kind \in {"Success", "Error"}

C1_Answered ==
    \A i \in Members :
        (~Req(i).is_notification /\ Finished(tasks[i]))
            => \/ /\ tasks[i].state = "done"
                  /\ tasks[i].response.kind \in {"Success", "Error"}
               \/ /\ tasks[i].state = "raised"
                  /\ HandlerRaised(i)
                  /\ tasks[i].exc = tasks[i].thrown
                  /\ ~IsInstance(tasks[i].thrown, "Exception")

C1_AnsweredOnce ==
    \A i \in Members :
        Finished(tasks[i]) => (i \in 1..Len(tasks') /\ tasks'[i] = tasks[i])

\* C1 (amended): for a non-notification Request whose handler returns, raises
\* an exception derived from Exception, or suspends and later does either,
\* safe_call returns exactly one Response, a Success or an Error, and no
\* exception escapes; only an exception of the handler that is not derived
\* from Exception (SystemExit) leaves safe_call; a finished safe_call never
\* changes its outcome.
C1_ExactlyOneResponse == [](C1_Answered) /\ [][C1_AnsweredOnce]_vars

C1_Witness ==
    \E i \in Members :
        /\ ~Req(i).is_notification
        /\ tasks[i].awaited
        /\ HandlerRaised(i)
        /\ tasks[i].thrown.type = "ValueError"
        /\ tasks[i].state = "done"
        /\ tasks[i].response.kind = "Error"

\* C2: a Request without id (a notification) is answered by Notification{}
\* in every outcome: method not registered, binding failed, handler raised,
\* handler returned.
C2_NotificationAlways ==
    \A i \in Members :
        (Req(i).is_notification /\ Finished(tasks[i]))
            => /\ tasks[i].step \in {"resolve", "bind", "execute"}
               /\ tasks[i].state = "done"
               /\ tasks[i].response = NotificationResponse

C2_Witness ==
    \E i \in Members :
        /\ Req(i).is_notification
        /\ HandlerRaised(i)
        /\ tasks[i].state = "done"
        /\ tasks[i].response = NotificationResponse

\* C3: a non-notification Request whose method is registered, whose
\* arguments bind and whose handler returns v, suspended before or not, is
\* answered by Success{result = v, id = request.id}.
C3_SuccessOnReturn ==
    \A i \in Members :
        (~Req(i).is_notification /\ HandlerReturned(i))
            => /\ Req(i).method \in DOMAIN methods
               /\ Binds(methods[Req(i).method], Req(i).args, Req(i).kwargs)
               /\ tasks[i].state = "done"
               /\ tasks[i].response = SuccessResponse(tasks[i].result, Req(i).id)

C3_Witness ==
    \E i \in Members :
        /\ ~Req(i).is_notification
        /\ HandlerReturned(i)
        /\ tasks[i].awaited
        /\ Req(i).args # <<>>
        /\ tasks[i].response.kind = "Success"

\* the Response safe_call gave for member i agrees with the Request r_i
AnswersRequest(r, i) ==
    IF Req(i).is_notification
    THEN r = NotificationResponse
    ELSE r.kind \in {"Success", "Error"} /\ r.id = Req(i).id

\* C4: the Batch call_requests returns for r_1..r_n has exactly n entries
\* and its i-th entry is the Response of r_i, whatever the order in which
\* the invocations finished.
C4_BatchInInputOrder ==
    (pc = "returned" /\ IsIterable(requests))
        => /\ response.kind = "Batch"
           /\ Len(response.responses) = Len(requests.items)
           /\ \A i \in 1..Len(requests.items) :
                /\ response.responses[i] = tasks[i].response
                /\ AnswersRequest(response.responses[i], i)

C4_Witness ==
    /\ pc = "returned"
    /\ IsIterable(requests)
    /\ order = <<2, 1>>
    /\ response.kind = "Batch"
    /\ response.responses[1] # response.responses[2]

\* C5: an exception of any type raised by the handler of a non-notification
\* Request is answered by the InternalError error (code -32603), never by
\* MethodNotFound or InvalidParams.
C5_HandlerExceptionIsInternalError ==
    \A i \in Members :
        (~Req(i).is_notification /\ HandlerRaised(i) /\ tasks[i].state = "done")
            => IsError(tasks[i].response, "ExceptionResponse", -32603)

\* C6: a request text that is not valid JSON is answered by the ParseError
\* error; nothing is raised, no Request is built, no handler is invoked.
C6_ParseError ==
    (~request.wellformed /\ pc # "start")
        => /\ pc = "returned"
           /\ IsError(response, "InvalidJSONResponse", -32700)
           /\ escaped = NoExc
           /\ requests = NoRequests
           /\ tasks = <<>>

C6_Witness == ~request.wellformed /\ pc = "returned" /\ response.kind = "Error"

\* C7: a text that is valid JSON and fails the request schema, a batch with
\* one schema-invalid member included, is answered by one InvalidRequest
\* error, and no handler of any member is invoked.
C7_InvalidRequest ==
    (request.wellformed /\ ~SchemaValid(request.value) /\ pc # "start")
        => /\ pc = "returned"
           /\ IsError(response, "InvalidJSONRPCResponse", -32600)
           /\ escaped = NoExc
           /\ requests = NoRequests
           /\ tasks = <<>>

C7_Witness ==
    /\ request.wellformed
    /\ request.value.kind = "array"
    /\ Len(request.value.members) = 2
    /\ request.value.members[1].method \in DOMAIN methods
    /\ request.value.members[1].args = <<>>
    /\ methods[request.value.members[1].method].params = 0
    /\ request.value.members[2].method = NoMethod
    /\ pc = "returned"
    /\ response.kind = "Error"

\* C8: a non-notification Request whose method is not in the registry is
\* answered by the MethodNotFound error (code -32601) with the method name
\* as data and the id of the request.
C8_MethodNotFound ==
    \A i \in Members :
        (~Req(i).is_notification /\ Req(i).method \notin DOMAIN methods
            /\ tasks[i].state # "created")
            => /\ tasks[i].state = "done"
               /\ IsError(tasks[i].response, "MethodNotFoundResponse", -32601)
               /\ tasks[i].response.data = Req(i).method
               /\ tasks[i].response.id = Req(i).id

C8_Witness ==
    \E i \in Members :
        /\ ~Req(i).is_notification
        /\ Req(i).method \notin DOMAIN methods
        /\ tasks[i].state = "done"
        /\ tasks[i].response.kind = "Error"

\* C9: a non-notification Request whose method is registered and whose
\* args/kwargs do not match the parameters of the handler is answered by the
\* InvalidParams error (code -32602), and the handler body is not executed.
C9_InvalidParams ==
    \A i \in Members :
        (~Req(i).is_notification /\ Req(i).method \in DOMAIN methods
            /\ tasks[i].state # "created"
            /\ ~Binds(methods[Req(i).method], Req(i).args, Req(i).kwargs))
            => /\ tasks[i].state = "done"
               /\ IsError(tasks[i].response, "InvalidParamsResponse", -32602)
               /\ tasks[i].invoked = 0

C9_Witness ==
    \E i \in Members :
        /\ ~Req(i).is_notification
        /\ Req(i).method \in DOMAIN methods
        /\ Req(i).kwargs # {}
        /\ ~Binds(methods[Req(i).method], Req(i).args, Req(i).kwargs)
        /\ tasks[i].state = "done"
        /\ tasks[i].response.kind = "Error"

\* C10: the Response safe_call gives a non-notification Request carries
\* exactly the id of the request, type included; the entries of a Batch
\* carry the ids of their own members.
C10_IdEchoed ==
    /\ \A i \in Members :
        (~Req(i).is_notification /\ tasks[i].state = "done")
            => tasks[i].response.id = Req(i).id
    /\ (pc = "returned" /\ IsIterable(requests))
        => \A i \in 1..Len(requests.items) :
            ~Req(i).is_notification => response.responses[i].id = Req(i).id

C10_Witness ==
    /\ pc = "returned"
    /\ IsIterable(requests)
    /\ Len(requests.items) = 2
    /\ Req(1).id = [type |-> "string", val |-> 1]
    /\ Req(2).id = [type |-> "number", val |-> 1]
    /\ response.responses[1].kind = "Success"
    /\ response.responses[2].kind = "Error"
    /\ order = <<2, 1>>

\* the first member of the batch that has not started
NextToStart(j) ==
    /\ tasks[j].state = "created"
    /\ \A k \in 1..(j - 1) : tasks[k].state # "created"

\* C11: the members of a batch run concurrently: all invocations exist
\* when call_requests starts to wait, and a member whose handler is
\* suspended does not keep a later member from starting, nor a suspended
\* member from resuming once all have started.
C11_MembersConcurrent ==
    pc = "gather"
        => /\ Len(tasks) = Len(requests.items)
           /\ \A j \in Members : NextToStart(j) => ENABLED StartMember(j)
           /\ \A j \in Members :
                (tasks[j].state = "suspended"
                    /\ \A k \in Members : tasks[k].state # "created")
                    => ENABLED ResumeMember(j)

C11_Witness ==
    /\ pc = "gather"
    /\ Len(tasks) = 2
    /\ tasks[1].state = "suspended"
    /\ tasks[2].state = "done"
    /\ tasks[2].invoked = 1
    /\ tasks[2].awaited

\* a member has ended with an Error Response
SomeError == \E i \in Members : tasks[i].response.kind = "Error"

C12_NoAbort ==
    /\ (pc = "gather" /\ pc' = "returned")
        => \A i \in Members : tasks[i].state = "done"
    /\ (pc = "gather" /\ pc' = "raised")
        => \E i \in Members : tasks[i].state = "raised"
    /\ \A i \in Members :
        (i \in 1..Len(tasks') /\ tasks'[i] # tasks[i])
            => tasks[i].state \in {"created", "suspended"}

C12_AllInBatch ==
    /\ (pc = "returned" /\ IsIterable(requests))
        => \A i \in 1..Len(requests.items) :
            /\ tasks[i].state = "done"
            /\ response.responses[i] = tasks[i].response
    /\ (pc = "gather" /\ SomeError)
        => /\ \A j \in Members : NextToStart(j) => ENABLED StartMember(j)
           /\ \A j \in Members :
                (tasks[j].state = "suspended"
                    /\ \A k \in Members : tasks[k].state # "created")
                    => ENABLED ResumeMember(j)

\* C12: call_requests returns the Batch of a launched batch only when every
\* member invocation has returned; a member that ended with an Error
\* Response aborts, skips or cancels no other member: the others still
\* start, resume and end, and their Responses are in the Batch.
C12_AwaitsEveryMember == [](C12_AllInBatch) /\ [][C12_NoAbort]_vars

C12_Witness ==
    /\ pc = "returned"
    /\ IsIterable(requests)
    /\ Len(tasks) = 2
    /\ order = <<1, 2>>
    /\ tasks[1].response.kind = "Error"
    /\ tasks[2].awaited
    /\ response.responses[2].kind = "Success"

\* the Responses of the first n members that came with an id, in input order
RECURSIVE AnsweredMembers(_)
AnsweredMembers(n) ==
    IF n = 0 THEN <<>>
    ELSE IF deserialize(request).value.members[n].id = NOID
    THEN AnsweredMembers(n - 1)
    ELSE Append(AnsweredMembers(n - 1), tasks[n].response)

\* C13: the wire payload of a Batch is the Responses of the members that are
\* not notifications, in input order, every Notification entry dropped; a
\* batch of notifications only has an empty wire payload.
C13_WirePayload ==
    (pc = "returned" /\ IsIterable(requests))
        => /\ WirePayload(response) = AnsweredMembers(Len(requests.items))
           /\ \A k \in 1..Len(WirePayload(response)) :
                WirePayload(response)[k].kind \in {"Success", "Error"}
           /\ (\A i \in Members : Req(i).is_notification)
                => WirePayload(response) = <<>>

C13_Witness ==
    /\ pc = "returned"
    /\ IsIterable(requests)
    /\ Len(tasks) = 2
    /\ Req(1).is_notification
    /\ tasks[1].invoked = 1
    /\ ~Req(2).is_notification
    /\ Len(response.responses) = 2
    /\ WirePayload(response) = <<tasks[2].response>>

C13_WitnessAllNotifications ==
    /\ pc = "returned"
    /\ IsIterable(requests)
    /\ Len(tasks) = 2
    /\ \A i \in Members : Req(i).is_notification
    /\ WirePayload(response) = <<>>

\* the value that create_requests was given
Parsed == deserialize(request).value

\* C14: call_requests returns the Success, Error or Notification of a
\* single Request as it is, with no Batch around it, and returns a Batch
\* with one entry per member for a sequence of n >= 1 Requests, n = 1
\* included.
C14_BatchOnlyForSequence ==
    (pc = "returned" /\ requests # NoRequests)
        => /\ Parsed.kind = "object"
                => /\ response.kind \in {"Success", "Error", "Notification"}
                   /\ response = tasks[1].response
           /\ Parsed.kind = "array"
                => /\ response.kind = "Batch"
                   /\ Len(response.responses) = Len(Parsed.members)
                   /\ \A i \in 1..Len(Parsed.members) :
                        response.responses[i].kind
                            \in {"Success", "Error", "Notification"}

C14_Witness ==
    /\ pc = "returned"
    /\ Parsed.kind = "array"
    /\ Len(Parsed.members) = 1
    /\ response.kind = "Batch"
    /\ Len(response.responses) = 1
    /\ response.responses[1].kind = "Success"

\* C15 (as stated): when a dispatch call made with basic_logging true has
\* finished, by returning or by an exception leaving it, the temporary log
\* handlers it attached are detached again.
C15_HandlersDetached ==
    (basic_logging /\ pc \in {"returned", "raised"}) => handlers = {}

\* the Responses the call has produced: those of the invocations and the
\* one dispatch returns, with the entries of a Batch
Produced ==
    {tasks[i].response : i \in Members}
        \cup {response}
        \cup (IF response.kind = "Batch"
              THEN {response.responses[i] : i \in 1..Len(response.responses)}
              ELSE {})

IsInternalError(r) == IsError(r, "ExceptionResponse", -32603)

\* C16: every error Response of a call is built with the debug option of
\* that call: with debug false no InternalError of the call (single request
\* or batch member) carries data, with debug true it carries the
\* description of the exception the handler raised.
C16_DebugReachesErrors ==
    /\ \A r \in Produced : r.kind = "Error" => r.debug = debug
    /\ \A r \in Produced :
        IsInternalError(r) => (ErrorData(r) = <<>>) = ~debug
    /\ \A i \in Members :
        (IsInternalError(tasks[i].response) /\ debug)
            => ErrorData(tasks[i].response) = <<tasks[i].thrown.msg>>

C16_Witness ==
    /\ pc = "returned"
    /\ ~debug
    /\ response.kind = "Batch"
    /\ Len(tasks) = 2
    /\ IsInternalError(response.responses[1])
    /\ IsInternalError(response.responses[2])
    /\ ErrorData(response.responses[2]) = <<>>
    /\ tasks[2].awaited

C16_WitnessDebug ==
    /\ pc = "returned"
    /\ debug
    /\ IsInternalError(response)
    /\ ErrorData(response) = <<"raised by handler">>

\* the ways call_requests can end for req passed alone: safe_call to the
\* first suspension of the handler, then the handler resumed to its end
AloneOutcomes(req, reg, dbg) ==
    LET first == SafeCallStart(req, reg, dbg)
        later == UNION {HandlerSteps(req, t, dbg) :
                            t \in {u \in first : u.state = "suspended"}}
    IN  {t \in first \cup later : Finished(t)}

\* the handler did in t what it did in u
SameBehaviour(t, u) ==
    /\ t.step = u.step
    /\ t.thrown = u.thrown
    /\ t.result = u.result

\* C17: the Response of a member of a batch is the Response the same
\* Request gets when it is passed alone to call_requests with the same
\* registry and debug option and its handler does the same, in every
\* interleaving of the members.
C17_MemberAsAlone ==
    (pc \in {"returned", "raised"} /\ IsIterable(requests))
        => \A i \in Members :
            Finished(tasks[i])
                => LET alone == {t \in AloneOutcomes(Req(i), methods, debug) :
                                    SameBehaviour(t, tasks[i])}
                   IN  /\ alone # {}
                       /\ \A t \in alone :
                            /\ t.state = tasks[i].state
                            /\ t.response = tasks[i].response
                            /\ t.exc = tasks[i].exc

C17_Witness ==
    /\ pc = "returned"
    /\ IsIterable(requests)
    /\ Len(tasks) = 2
    /\ order = <<2, 1>>
    /\ Req(1).method # Req(2).method
    /\ Req(1).id # Req(2).id
    /\ tasks[1].response.kind = "Success"
    /\ tasks[2].response.kind = "Error"
    /\ \A i \in Members :
        \E t \in AloneOutcomes(Req(i), methods, debug) :
            t.response = response.responses[i]

Registered(i) == Req(i).method \in DOMAIN methods

\* the arguments of member i fit the signature of its registered handler
ArgumentsBind(i) ==
    /\ Registered(i)
    /\ Binds(methods[Req(i).method], Req(i).args, Req(i).kwargs)

\* C18: the steps of a request run in the order Resolve, Bind, Execute,
\* Classify: no binding is attempted for a method missing from the
\* registry, the handler body runs only after the lookup and the binding
\* have both succeeded, and the Response is built from the step the try
\* body ended in.
C18_StepsInOrder ==
    \A i \in Members :
        /\ tasks[i].bound >= 1 => Registered(i)
        /\ tasks[i].invoked >= 1 => (tasks[i].bound = 1 /\ ArgumentsBind(i))
        /\ tasks[i].state = "suspended" => tasks[i].invoked = 1
        /\ Finished(tasks[i])
            => /\ tasks[i].step \in {"resolve", "bind", "execute"}
               /\ tasks[i].step = "resolve"
                    => /\ ~Registered(i)
                       /\ tasks[i].bound = 0
                       /\ tasks[i].invoked = 0
               /\ tasks[i].step = "bind"
                    => /\ Registered(i)
                       /\ ~ArgumentsBind(i)
                       /\ tasks[i].bound = 1
                       /\ tasks[i].invoked = 0
               /\ tasks[i].step = "execute"
                    => /\ ArgumentsBind(i)
                       /\ tasks[i].bound = 1
                       /\ tasks[i].invoked = 1
        /\ tasks[i].response # NoResponse => Finished(tasks[i])

C18_Witness ==
    /\ pc = "returned"
    /\ Len(tasks) = 2
    /\ tasks[1].step = "resolve"
    /\ IsError(tasks[1].response, "MethodNotFoundResponse", -32601)
    /\ tasks[2].step = "bind"
    /\ tasks[2].bound = 1
    /\ tasks[2].invoked = 0
    /\ IsError(tasks[2].response, "InvalidParamsResponse", -32602)

\* C20 (as stated): in every dispatch that has ended, the handler of each
\* Request whose method is registered and whose arguments bind has been
\* invoked exactly once, and the handler of every other Request not at all.
C20_InvokedOnceInEveryCall ==
    pc \in {"returned", "raised"}
        => \A i \in Members :
            tasks[i].invoked = IF ArgumentsBind(i) THEN 1 ELSE 0

\* C20: the handler of a Request (single or batch member, notification or
\* not) is never invoked more than once and never unless the method is
\* registered and the arguments bind; it is invoked exactly once as soon as
\* the invocation of a binding Request has started, hence for every binding
\* Request of a dispatch that returns a Response, notifications included,
\* whose outcome Notification replaces.
C20_InvokedExactlyOnce ==
    \A i \in Members :
        /\ tasks[i].invoked \in {0, 1}
        /\ ~ArgumentsBind(i) => tasks[i].invoked = 0
        /\ (tasks[i].state # "created" /\ ArgumentsBind(i))
            => tasks[i].invoked = 1
        /\ (pc = "returned" /\ ArgumentsBind(i))
            => tasks[i].invoked = 1

C20_Witness ==
    /\ pc = "returned"
    /\ IsIterable(requests)
    /\ Len(tasks) = 2
    /\ Req(1).is_notification
    /\ tasks[1].invoked = 1
    /\ tasks[1].awaited
    /\ tasks[1].thrown # NoExc
    /\ tasks[1].response = NotificationResponse
    /\ ~ArgumentsBind(2)
    /\ tasks[2].invoked = 0

\* C19 (as stated): when every invoked handler comes to its end and the
\* tasks are scheduled fairly, dispatch eventually returns a Response.
C19_EventuallyReturns == <>(pc = "returned")

\* an exception that safe_call does not catch left a handler and the call
LeftByHandlerException ==
    /\ pc = "raised"
    /\ ~IsInstance(escaped, "Exception")
    /\ \E i \in Members : HandlerRaised(i) /\ tasks[i].thrown = escaped

\* C19: when every invoked handler comes to its end and the tasks are
\* scheduled fairly, every dispatch call, for a single request or a batch,
\* eventually ends: it returns a Response, or an exception not derived from
\* Exception that a handler raised leaves it; it waits forever in no case.
C19_EventuallyEnds ==
    /\ <>(pc \in {"returned", "raised"})
    /\ [](pc = "raised" => LeftByHandlerException)

C19_Witness ==
    /\ pc = "returned"
    /\ response.kind = "Batch"
    /\ Len(tasks) = 2
    /\ order = <<2, 1>>
    /\ \A i \in Members : tasks[i].awaited

====
